---------------------------- MODULE Spec2Model ----------------------------
(***************************************************************************)
(* Model of the MCP gateway of src/gateway_mcp_server.py: a gateway object *)
(* (subsystem map, tool cache, callable registry), its start-up            *)
(* (load_config / add_server with best-effort discovery) and the routed    *)
(* calls served once the gateway runs (list handler, invoke handler,       *)
(* result extraction).                                                     *)
(*                                                                         *)
(* Text is modelled as sequences of one-character strings.  Literal        *)
(* fragments of the source that hold no newline and no bullet are single   *)
(* tokens; non-ASCII characters are written as ASCII tokens:               *)
(*   "FAIL" = the failure marker, "PKG" = the package marker,              *)
(*   "BUL" = the bullet character, "wu" "miao" "shu" = the three           *)
(*   characters of the default description.                                *)
(* Subsystem names, operation names and numbers are single tokens.         *)
(***************************************************************************)
EXTENDS Integers, Sequences, FiniteSets, TLC

(* ------------------------------ bounds --------------------------------- *)

\* how far past the limit of 80 characters the longest upstream description
\* line reaches, and how far past the preview limit of 30 entries the largest
\* upstream operation set
MaxOver == 2

(* ------------------------- program constants --------------------------- *)

\* gateway_mcp_server.py:88  if len(desc) > 80
DescLimit == 80
\* gateway_mcp_server.py:89  desc[:77] + "..."
DescKeep == 77
\* gateway_mcp_server.py:123  server.tools[:30]
PreviewLimit == 30

(* ------------------------------- text ---------------------------------- *)

NL == "\n"
Ellipsis == <<".", ".", ".">>
DefaultDesc == <<"wu", "miao", "shu">>
BulletPrefix == <<" ", " ", "BUL", " ">>

Rep(c, n) == [i \in 1..n |-> c]

RECURSIVE Join(_, _)
\* sep.join(parts)
Join(parts, sep) ==
    IF parts = <<>> THEN <<>>
    ELSE IF Len(parts) = 1 THEN parts[1]
    ELSE parts[1] \o sep \o Join(Tail(parts), sep)

IsSpace(c) == c \in {" ", NL, "\t"}

RECURSIVE LStrip(_)
LStrip(s) == IF s # <<>> /\ IsSpace(Head(s)) THEN LStrip(Tail(s)) ELSE s

RECURSIVE RStrip(_)
RStrip(s) ==
    IF s # <<>> /\ IsSpace(s[Len(s)]) THEN RStrip(SubSeq(s, 1, Len(s) - 1)) ELSE s

\* str.strip()
Strip(s) == RStrip(LStrip(s))

\* the first element of str.split on newline
FirstLine(s) ==
    LET nls == {i \in 1..Len(s) : s[i] = NL}
    IN  IF nls = {} THEN s
        ELSE SubSeq(s, 1, (CHOOSE i \in nls : \A j \in nls : i <= j) - 1)


(* --------------------------- Python values ----------------------------- *)

\* A value as the extractor sees it: its type tag and its characters.
StrVal(s) == [t |-> "str", v |-> s]
BytesVal(s) == [t |-> "bytes", v |-> s]
IntVal(digits) == [t |-> "int", v |-> digits]
NoneVal == [t |-> "none", v |-> <<>>]

\* str(x)
PyStr(x) ==
    CASE x.t = "str" -> x.v
      [] x.t = "bytes" -> <<"b", "'">> \o x.v \o <<"'">>
      [] x.t = "int" -> x.v
      [] OTHER -> <<"N", "o", "n", "e">>

\* str(obj) of an object with no text form of its own: its repr
ObjStr(obj) == <<"<", obj.repr, ">">>

\* hasattr(obj, name)
HasAttr(obj, name) == name \in DOMAIN obj

(* ------------------- discovery: short and long form -------------------- *)

\* t.description or the default: None and the empty string are falsy
DescOrDefault(t) ==
    IF t.description.t = "none" \/ t.description.v = <<>>
    THEN DefaultDesc
    ELSE t.description.v

\* a cap that keeps as many characters as the limit before the ellipsis
ShortDescCutAtLimit(t) ==
    LET desc == FirstLine(Strip(DescOrDefault(t)))
    IN  IF Len(desc) > DescLimit
        THEN SubSeq(desc, 1, DescLimit) \o Ellipsis
        ELSE desc

\* lines 87-89: the one-line description with its cap
ShortDesc(t) ==
    LET desc == FirstLine(Strip(DescOrDefault(t)))
    IN  IF Len(desc) > DescLimit
        THEN SubSeq(desc, 1, DescKeep) \o Ellipsis
        ELSE desc

\* line 90: name, colon, space, one-line description
ShortForm(t) == <<t.name, ":", " ">> \o ShortDesc(t)

\* lines 94 and 155: name, colon, space, full description or the default
LongForm(t) == <<t.name, ":", " ">> \o DescOrDefault(t)

ShortForms(tools) == [i \in 1..Len(tools) |-> ShortForm(tools[i])]

LongForms(tools) == [i \in 1..Len(tools) |-> LongForm(tools[i])]

(* ------------------------- description synthesis ----------------------- *)

\* lines 113-119: the sentence naming the subsystem, the parameter list (two
\* lines that begin with a dash) and the example
BaseDesc(server) ==
    <<"interact-with", " ", "**", server.name, "**", NL, NL,
      "**params**", ":", NL,
      "-", " ", "action-doc", NL,
      "-", " ", "params-doc", NL, NL,
      "**example**", ":", " ", "example-text">>

\* line 126: blank line, the heading of the preview block, newline
PreviewHeader == <<NL, NL, "**tool-list**", ":", NL>>

\* a remainder message that reports the total instead of the remainder
MoreMsgTotal(n) ==
    <<NL, ".", ".", ".", " ", "(", ToString(n + PreviewLimit), " ", "more", ")">>

\* line 125: newline, dots, the number of operations left out
MoreMsg(n) == <<NL, ".", ".", ".", " ", "(", ToString(n), " ", "more", ")">>

\* _build_description
BuildDescription(server) ==
    IF server.tools # <<>>
    THEN LET display == SubSeq(server.tools, 1,
                               IF Len(server.tools) < PreviewLimit
                               THEN Len(server.tools) ELSE PreviewLimit)
             lines == [i \in 1..Len(display) |-> <<"-", " ">> \o display[i]]
             more == IF Len(server.tools) > PreviewLimit
                     THEN MoreMsg(Len(server.tools) - PreviewLimit)
                     ELSE <<>>
         IN  BaseDesc(server) \o PreviewHeader \o Join(lines, <<NL>>) \o more
    ELSE BaseDesc(server)

(* ------------------------------ responses ------------------------------ *)

ListHeader(name, n) ==
    <<"PKG", " ", "[", name, "]", " ", "tools", " ", "(", ToString(n), " ",
      "ge", ")", ":", NL, NL>>

\* a list response whose count is that of the last index
FormatListMiscount(name, tools) ==
    ListHeader(name, IF tools = <<>> THEN 0 ELSE Len(tools) - 1)
        \o Join([i \in 1..Len(tools) |-> BulletPrefix \o tools[i]], <<NL>>)

\* lines 146-148 and 162-164: the list response
FormatList(name, tools) ==
    ListHeader(name, Len(tools))
        \o Join([i \in 1..Len(tools) |-> BulletPrefix \o tools[i]], <<NL>>)

\* line 159: the failure marker, a fixed phrase, the error
ListFailure(e) == <<"FAIL", " ", "cannot-get-tool-list", ":", " ", e>>

\* a failure text that leaves the action out
CallFailureNoAction(name, action, e) ==
    <<"FAIL", " ", "[", name, "]", " ", "call", " ", "failed", ":", " ", e>>

\* line 178: the failure marker, [server.name], the quoted action, the error
CallFailure(name, action, e) ==
    <<"FAIL", " ", "[", name, "]", " ", "call", " ", "bq", action, "bq", " ",
      "failed", ":", " ", e>>

\* _extract_content: what it returns, or that the join raised TypeError
\* (join accepts str parts only; item.text is appended as it is)
ExtractContent(result) ==
    IF ~HasAttr(result, "content") \/ result.content = <<>>
    THEN [raised |-> FALSE, s |-> ObjStr(result)]
    ELSE LET part(item) ==
                 IF HasAttr(item, "text") THEN item.text
                 ELSE IF HasAttr(item, "data") THEN StrVal(PyStr(item.data))
                 ELSE StrVal(ObjStr(item))
             parts == [i \in 1..Len(result.content) |-> part(result.content[i])]
         IN  IF \E i \in 1..Len(parts) : parts[i].t # "str"
             THEN [raised |-> TRUE, s |-> <<>>]
             ELSE [raised |-> FALSE,
                   s |-> Join([i \in 1..Len(parts) |-> parts[i].v], <<NL>>)]

(* ------------------------------- inputs -------------------------------- *)

Names == {"A", "B"}
Commands == {"x", "y"}
Slots == {"c1", "c2"}
Actions == {"list", "read", "List"}
ParamValues == {"{}", "{k:v}"}

\* the calls consumers make: the reserved action with and without params, an
\* operation name with params, and an operation name that differs from the
\* reserved action by its case only, params left out (the default, line 108)
Requests ==
    { <<"list", "{}">>, <<"list", "{k:v}">>, <<"read", "{k:v}">>,
      <<"List", "{}">> }

Tool(n, d) == [name |-> n, description |-> d]

\* upstream operation sets: the descriptions an upstream may report
ToolsEmpty == <<>>
ToolsShort == <<Tool("t1", StrVal(<<"a">>))>>
ToolsNoDesc == <<Tool("t1", NoneVal), Tool("t2", StrVal(<<>>))>>
ToolsAtLimit == <<Tool("t1", StrVal(Rep("a", DescLimit)))>>
ToolsOver(k) == <<Tool("t1", StrVal(Rep("a", DescKeep) \o Rep("b", DescLimit + k - DescKeep)))>>
ToolsMultiLine == <<Tool("t1", StrVal(<<"a", NL, "b">>)), Tool("t2", StrVal(<<"c">>))>>
ToolsLongMultiLine == <<Tool("t1", StrVal(<<"a", "b", NL>> \o Rep("c", DescLimit)))>>
ToolsPadded == <<Tool("t1", StrVal(<<" ">> \o Rep("a", DescLimit) \o <<" ">>))>>
ToolsBulletLine == <<Tool("t1", StrVal(<<"a", NL>> \o BulletPrefix \o <<"b">>))>>
ToolsMany(k) == [i \in 1..k |-> Tool("t" \o ToString(i), StrVal(<<"d">>))]

\* results an upstream may answer an invocation with
ReplyNoContent == [repr |-> "Result0"]
ReplyEmpty == [repr |-> "Result1", content |-> <<>>]
ReplyText == [repr |-> "Result2",
              content |-> <<[repr |-> "Text", text |-> StrVal(<<"h", "i">>)]>>]
ReplyMixed == [repr |-> "Result3",
               content |-> <<[repr |-> "Image", data |-> BytesVal(<<"z">>)],
                             [repr |-> "Text", text |-> StrVal(<<>>),
                              data |-> IntVal(<<"7">>)],
                             [repr |-> "Link"]>>]
ReplyTwoTexts == [repr |-> "Result4",
                  content |-> <<[repr |-> "Text", text |-> StrVal(<<"b">>)],
                                [repr |-> "Text", text |-> StrVal(<<"a", NL, "c">>)]>>]
ReplyTextNone == [repr |-> "Result5",
                  content |-> <<[repr |-> "Text", text |-> StrVal(<<"a">>)],
                                [repr |-> "Odd", text |-> NoneVal]>>]

World(tx, ty, r) == [tools |-> [c \in Commands |-> IF c = "x" THEN tx ELSE ty],
                     reply |-> r]

\* the upstreams the gateway is run against: what each command enumerates,
\* and what an invocation is answered with
Worlds ==
    { World(ToolsShort, ToolsNoDesc, ReplyText),
      World(ToolsEmpty, ToolsMultiLine, ReplyNoContent),
      World(ToolsAtLimit, ToolsLongMultiLine, ReplyEmpty),
      World(ToolsPadded, ToolsBulletLine, ReplyMixed),
      World(ToolsMultiLine, ToolsShort, ReplyTwoTexts),
      World(ToolsNoDesc, ToolsEmpty, ReplyTextNone) }
    \cup { World(ToolsMany(PreviewLimit + k), ToolsOver(k), ReplyText) :
               k \in 0..MaxOver }

\* one entry of the mcpServers object: the JSON object of a subsystem
GoodEntry(n) ==
    IF n = "A" THEN [name |-> n, cfg |-> [command |-> "x"]]
    ELSE [name |-> n, cfg |-> [command |-> "y", args |-> <<"-v">>,
                               env |-> <<"K=V">>]]
BadEntry(n) == [name |-> n, cfg |-> [args |-> <<"-v">>]]
Entries(n) == {GoodEntry(n), BadEntry(n)}

\* the parsed configuration files: an object with no mcpServers key, or one
\* whose mcpServers object has distinct keys (the subsystem names), in file order
ConfigFiles ==
    { [version |-> "1"], [mcpServers |-> <<>>] }
    \cup { [mcpServers |-> <<e>>] :
             e \in UNION { Entries(n) : n \in Names } }
    \cup { [mcpServers |-> <<e2, e1>>] :
             e1 \in Entries("A"), e2 \in Entries("B") }

(* ---------------------------- ServerConfig ----------------------------- *)

\* the dataclass: tools defaults to the empty list
ServerConfig(n, command, args, env) ==
    [name |-> n, command |-> command, args |-> args, env |-> env, tools |-> <<>>]

NoServer == ServerConfig("", "", <<>>, <<>>)

\* the client_config property: what the ProtocolClient is opened with
ClientConfig(server) ==
    [name |-> server.name, command |-> server.command, args |-> server.args,
     env |-> server.env]

NoTarget == ClientConfig(NoServer)

\* load_config, lines 54-59: cfg.get(key, default)
Get(cfg, key, default) == IF HasAttr(cfg, key) THEN cfg[key] ELSE default

\* load_config, line 56: cfg["command"] raises KeyError when the key is absent
HasCommand(e) == HasAttr(e.cfg, "command")

FromEntry(e) ==
    ServerConfig(e.name, e.cfg.command, Get(e.cfg, "args", <<>>),
                 Get(e.cfg, "env", <<>>))

\* an entry-point name that leaves the subsystem name out
EntryNameFixed(n) == "use_"

\* _register_tool, line 105
EntryName(n) == "use_" \o n

(* ------------------------- start-up programs --------------------------- *)

Load(f) == [op |-> "load_config", file |-> f]
Add(server) == [op |-> "add_server", server |-> server]

NoFile == [version |-> "1"]

\* what the embedding program does with the gateway before run(): create_gateway
\* loads one configuration file; a program may also call add_server itself
Scripts ==
    { <<Load(f)>> : f \in ConfigFiles }
    \cup { <<Load([mcpServers |-> <<GoodEntry("A")>>]),
             Add(ServerConfig("A", "y", <<>>, <<>>))>>,
           <<Add(ServerConfig("A", "x", <<>>, <<>>)),
             Add(ServerConfig("A", "y", <<"-q">>, <<>>))>> }

(* ------------------------------- state --------------------------------- *)

VARIABLES
    upstream,    \* the world: what the upstream subsystems enumerate and answer
    script,      \* start-up calls the embedding program has yet to make
    phase,       \* "setup", "loading" (inside load_config), "failed", "running"
    loaded,      \* the file load_config was called with, and whether it was
    pending,     \* entries load_config's loop has yet to visit
    addStage,    \* add_server: "idle", "connect", "enumerate", "close"
    addServer,   \* the ServerConfig add_server was called with
    addResult,   \* outcome of _fetch_tools_dynamic
    servers,     \* self.servers
    toolsCache,  \* self._tools_cache
    registry,    \* the callable registry: entry-point name -> description, closure
    regLog,      \* every register call made, in order
    conns,       \* open ProtocolClient connections, by owner
    calls        \* routed calls, one per consumer slot

vars == <<upstream, script, phase, loaded, pending, addStage, addServer,
          addResult, servers, toolsCache, registry, regLog, conns, calls>>

startupVars == <<script, phase, loaded, pending, addStage, addServer, addResult,
                 servers, registry, regLog>>

Empty == [n \in {} |-> <<>>]

NoResult == [ok |-> FALSE, tools |-> <<>>]

IdleCall ==
    [pc |-> "idle", ep |-> "", server |-> NoServer, handler |-> "",
     action |-> "", params |-> "", hit |-> FALSE, nConn |-> 0, nEnum |-> 0,
     nInvoke |-> 0, target |-> NoTarget, sent |-> <<>>, upOk |-> FALSE,
     reply |-> [repr |-> ""], err |-> "", val |-> <<>>, out |-> "none",
     ret |-> <<>>]

Init ==
    /\ upstream \in Worlds
    /\ script \in Scripts
    /\ phase = "setup"
    /\ loaded = [called |-> FALSE, file |-> NoFile]
    /\ pending = <<>>
    /\ addStage = "idle"
    /\ addServer = NoServer
    /\ addResult = NoResult
    /\ servers = Empty
    /\ toolsCache = Empty
    /\ registry = Empty
    /\ regLog = <<>>
    /\ conns = {}
    /\ calls = [c \in Slots |-> IdleCall]

(* ------------------------------ start-up ------------------------------- *)

\* a cache write that adds the long forms to the entry already there
CacheWriteAppends(cache, n, tools) ==
    (n :> (IF n \in DOMAIN cache THEN cache[n] ELSE <<>>) \o LongForms(tools))
        @@ cache

\* _fetch_tools_dynamic, lines 93-96 and _list_tools, lines 154-157:
\* the cache entry of the subsystem is replaced by the long forms
CacheWrite(cache, n, tools) == (n :> LongForms(tools)) @@ cache

\* a subsystem map that keeps the first config stored under a name
ServersPutKeepFirst(svs, server) == svs @@ (server.name :> server)

\* add_server, line 75: self.servers[server.name] = server
ServersPut(svs, server) == (server.name :> server) @@ svs

\* _register_tool, lines 104-107: app.tool(name, description) on a FastMCP
\* built with its defaults, which replaces a tool registered under the same
\* name; the closure holds the config it was registered for
Register(reg, server) ==
    (EntryName(server.name) :>
        [description |-> BuildDescription(server), server |-> server]) @@ reg

\* add_server, lines 75-76, once discovery has ended one way or the other
FinishAdd(server) ==
    /\ servers' = ServersPut(servers, server)
    /\ registry' = Register(registry, server)
    /\ regLog' = Append(regLog, [name |-> EntryName(server.name),
                                 description |-> BuildDescription(server),
                                 server |-> server])
    /\ addStage' = "idle"
    /\ addServer' = NoServer
    /\ addResult' = NoResult

\* load_config, lines 50-51: the file is read and parsed
LoadConfig ==
    /\ phase = "setup" /\ addStage = "idle"
    /\ script # <<>> /\ Head(script).op = "load_config"
    /\ loaded' = [called |-> TRUE, file |-> Head(script).file]
    /\ pending' = Get(Head(script).file, "mcpServers", <<>>)
    /\ phase' = "loading"
    /\ script' = Tail(script)
    /\ UNCHANGED <<upstream, addStage, addServer, addResult, servers,
                   toolsCache, registry, regLog, conns, calls>>

\* a loop that skips an entry with no command instead of raising
LoadEntrySkipsBad ==
    /\ phase = "loading" /\ addStage = "idle" /\ pending # <<>>
    /\ IF HasCommand(Head(pending))
       THEN /\ addServer' = FromEntry(Head(pending))
            /\ addStage' = "connect"
       ELSE UNCHANGED <<addServer, addStage>>
    /\ pending' = Tail(pending)
    /\ UNCHANGED <<upstream, script, phase, loaded, addResult, servers,
                   toolsCache, registry, regLog, conns, calls>>

\* load_config, lines 53-59: one turn of the loop, up to the call of add_server;
\* an entry with no command raises KeyError, which nothing catches
LoadEntry ==
    /\ phase = "loading" /\ addStage = "idle" /\ pending # <<>>
    /\ IF HasCommand(Head(pending))
       THEN /\ addServer' = FromEntry(Head(pending))
            /\ addStage' = "connect"
            /\ pending' = Tail(pending)
            /\ phase' = phase
       ELSE /\ phase' = "failed"
            /\ UNCHANGED <<addServer, addStage, pending>>
    /\ UNCHANGED <<upstream, script, loaded, addResult, servers, toolsCache,
                   registry, regLog, conns, calls>>

\* load_config, line 60: return self
LoadReturn ==
    /\ phase = "loading" /\ addStage = "idle" /\ pending = <<>>
    /\ phase' = "setup"
    /\ UNCHANGED <<upstream, script, loaded, pending, addStage, addServer,
                   addResult, servers, toolsCache, registry, regLog, conns,
                   calls>>

\* add_server called by the embedding program itself
AddServer ==
    /\ phase = "setup" /\ addStage = "idle"
    /\ script # <<>> /\ Head(script).op = "add_server"
    /\ addServer' = Head(script).server
    /\ addStage' = "connect"
    /\ script' = Tail(script)
    /\ UNCHANGED <<upstream, phase, loaded, pending, addResult, servers,
                   toolsCache, registry, regLog, conns, calls>>

\* an add_server that gives up when the client cannot be opened
FetchConnectAborts ==
    /\ addStage = "connect"
    /\ \E ok \in BOOLEAN :
        IF ok
        THEN /\ conns' = conns \cup {"startup"}
             /\ addStage' = "enumerate"
             /\ UNCHANGED <<addServer, addResult, servers, registry, regLog>>
        ELSE /\ addStage' = "idle"
             /\ addServer' = NoServer
             /\ UNCHANGED <<addResult, servers, registry, regLog, conns>>
    /\ UNCHANGED <<upstream, script, phase, loaded, pending, toolsCache, calls>>

\* _fetch_tools_dynamic, line 81: the client is opened, or opening it fails and
\* add_server (lines 71-76) goes on to register the subsystem
FetchConnect ==
    /\ addStage = "connect"
    /\ \E ok \in BOOLEAN :
        IF ok
        THEN /\ conns' = conns \cup {"startup"}
             /\ addStage' = "enumerate"
             /\ UNCHANGED <<addServer, addResult, servers, registry, regLog>>
        ELSE /\ FinishAdd(addServer)
             /\ conns' = conns
    /\ UNCHANGED <<upstream, script, phase, loaded, pending, toolsCache, calls>>

\* _fetch_tools_dynamic, lines 82-99: enumerate, build the short forms, write
\* the long forms to the cache; or the enumerate call fails
FetchEnumerate ==
    /\ addStage = "enumerate"
    /\ \E ok \in BOOLEAN :
        IF ok
        THEN LET tools == upstream.tools[addServer.command]
             IN  /\ toolsCache' = CacheWrite(toolsCache, addServer.name, tools)
                 /\ addResult' = [ok |-> TRUE, tools |-> ShortForms(tools)]
        ELSE /\ toolsCache' = toolsCache
             /\ addResult' = NoResult
    /\ addStage' = "close"
    /\ UNCHANGED <<upstream, script, phase, loaded, pending, addServer, servers,
                   registry, regLog, conns, calls>>

\* the client is closed on leaving the with block; add_server, lines 69-76
FetchClose ==
    /\ addStage = "close"
    /\ conns' = conns \ {"startup"}
    /\ FinishAdd(IF addResult.ok
                 THEN [addServer EXCEPT !.tools = addResult.tools]
                 ELSE addServer)
    /\ UNCHANGED <<upstream, script, phase, loaded, pending, toolsCache, calls>>

\* a gateway that starts serving while the start-up program is still at work
RunEarly ==
    /\ phase \in {"setup", "loading"} /\ script = <<>>
    /\ phase' = "running"
    /\ UNCHANGED <<upstream, script, loaded, pending, addStage, addServer,
                   addResult, servers, toolsCache, registry, regLog, conns,
                   calls>>

\* main: gateway.run(), once the start-up program has run to its end
Run ==
    /\ phase = "setup" /\ addStage = "idle" /\ script = <<>>
    /\ phase' = "running"
    /\ UNCHANGED <<upstream, script, loaded, pending, addStage, addServer,
                   addResult, servers, toolsCache, registry, regLog, conns,
                   calls>>

(* ---------------------------- routed calls ----------------------------- *)

\* a dispatch that takes the reserved action whatever its case
RouteCaseless(action) ==
    IF action \in {"list", "List"} THEN "list" ELSE "invoke"

\* _handle_dispatch, lines 137-139
Route(action) == IF action = "list" THEN "list" ELSE "invoke"

\* _list_tools, line 144: if server.name in self._tools_cache
CacheHitNever(cache, server) == FALSE

CacheHit(cache, server) == server.name \in DOMAIN cache

\* an except clause that lets the TypeError of the join through
OnErrorNarrow(call, e) ==
    IF e = "TypeError" THEN [out |-> "raised", ret |-> <<>>]
    ELSE IF call.handler = "list"
    THEN [out |-> "returned", ret |-> ListFailure(e)]
    ELSE [out |-> "returned",
          ret |-> CallFailure(call.server.name, call.action, e)]

\* the except clauses of _list_tools (line 158) and _call_tool (line 177):
\* what the entry point hands back when e was raised inside the try block
OnError(call, e) ==
    IF call.handler = "list"
    THEN [out |-> "returned", ret |-> ListFailure(e)]
    ELSE [out |-> "returned",
          ret |-> CallFailure(call.server.name, call.action, e)]

\* the dispatch closure is entered: _handle_dispatch runs up to its first
\* suspension; a list call that finds the cache filled returns at once
CallStart(c) ==
    /\ phase = "running" /\ calls[c].pc = "idle"
    /\ \E ep \in DOMAIN registry, req \in Requests :
        LET action == req[1]
            params == req[2]
            server == registry[ep].server
            call == [IdleCall EXCEPT !.ep = ep, !.server = server,
                                     !.handler = Route(action),
                                     !.action = action, !.params = params]
        IN  IF Route(action) = "list" /\ CacheHit(toolsCache, server)
            THEN calls' = [calls EXCEPT ![c] =
                     [call EXCEPT !.pc = "done", !.hit = TRUE,
                                  !.out = "returned",
                                  !.ret = FormatList(server.name,
                                                     toolsCache[server.name])]]
            ELSE calls' = [calls EXCEPT ![c] = [call EXCEPT !.pc = "connect"]]
    /\ UNCHANGED <<upstream, startupVars, toolsCache, conns>>

\* lines 152 and 174: async with Client(server.client_config)
CallConnect(c) ==
    /\ calls[c].pc = "connect"
    /\ \E ok \in BOOLEAN :
        LET call == [calls[c] EXCEPT !.nConn = @ + 1,
                                     !.target = ClientConfig(calls[c].server)]
        IN  IF ok
            THEN /\ conns' = conns \cup {c}
                 /\ calls' = [calls EXCEPT ![c] =
                        [call EXCEPT !.pc = IF call.handler = "list"
                                            THEN "enumerate" ELSE "invoke"]]
            ELSE /\ conns' = conns
                 /\ calls' = [calls EXCEPT ![c] =
                        [call EXCEPT !.pc = "done", !.err = "connect-error",
                                     !.out = OnError(call, "connect-error").out,
                                     !.ret = OnError(call, "connect-error").ret]]
    /\ UNCHANGED <<upstream, startupVars, toolsCache>>

\* a lazy discovery that caches an empty list when the enumerate call fails
CallEnumerateCachesFailure(c) ==
    /\ calls[c].pc = "enumerate"
    /\ \E ok \in BOOLEAN :
        IF ok
        THEN /\ toolsCache' = CacheWrite(toolsCache, calls[c].server.name,
                                         upstream.tools[calls[c].target.command])
             /\ calls' = [calls EXCEPT ![c].pc = "close", ![c].nEnum = @ + 1,
                                       ![c].upOk = TRUE]
        ELSE /\ toolsCache' = CacheWrite(toolsCache, calls[c].server.name, <<>>)
             /\ calls' = [calls EXCEPT ![c].pc = "close", ![c].nEnum = @ + 1,
                                       ![c].err = "enumerate-error"]
    /\ UNCHANGED <<upstream, startupVars, conns>>

\* a lazy discovery that also fills the short forms of the registered config
CallEnumerateFillsConfig(c) ==
    /\ calls[c].pc = "enumerate"
    /\ \E ok \in BOOLEAN :
        IF ok
        THEN LET n == calls[c].server.name
                 tools == upstream.tools[calls[c].target.command]
             IN  /\ toolsCache' = CacheWrite(toolsCache, n, tools)
                 /\ servers' = [servers EXCEPT ![n].tools = ShortForms(tools)]
                 /\ calls' = [calls EXCEPT ![c].pc = "close",
                                           ![c].nEnum = @ + 1, ![c].upOk = TRUE]
        ELSE /\ toolsCache' = toolsCache
             /\ servers' = servers
             /\ calls' = [calls EXCEPT ![c].pc = "close", ![c].nEnum = @ + 1,
                                       ![c].err = "enumerate-error"]
    /\ UNCHANGED <<upstream, script, phase, loaded, pending, addStage,
                   addServer, addResult, registry, regLog, conns>>

\* _list_tools, lines 153-157: enumerate and write the cache, or enumerate fails
CallEnumerate(c) ==
    /\ calls[c].pc = "enumerate"
    /\ \E ok \in BOOLEAN :
        IF ok
        THEN /\ toolsCache' = CacheWrite(toolsCache, calls[c].server.name,
                                         upstream.tools[calls[c].target.command])
             /\ calls' = [calls EXCEPT ![c].pc = "close", ![c].nEnum = @ + 1,
                                       ![c].upOk = TRUE]
        ELSE /\ toolsCache' = toolsCache
             /\ calls' = [calls EXCEPT ![c].pc = "close", ![c].nEnum = @ + 1,
                                       ![c].err = "enumerate-error"]
    /\ UNCHANGED <<upstream, startupVars, conns>>

\* an invoke handler that sends the operation a second time when the first
\* attempt fails
CallInvokeRetries(c) ==
    /\ calls[c].pc = "invoke"
    /\ \E ok \in BOOLEAN :
        LET call == [calls[c] EXCEPT !.pc = "close", !.nInvoke = @ + 1,
                                     !.sent = <<calls[c].action, calls[c].params>>]
            ext == ExtractContent(upstream.reply)
        IN  IF ok
            THEN calls' = [calls EXCEPT ![c] =
                     [call EXCEPT !.upOk = TRUE, !.reply = upstream.reply,
                                  !.err = IF ext.raised THEN "TypeError" ELSE "",
                                  !.val = ext.s]]
            ELSE IF calls[c].nInvoke = 0
            THEN calls' = [calls EXCEPT ![c] = [call EXCEPT !.pc = "invoke"]]
            ELSE calls' = [calls EXCEPT ![c] =
                     [call EXCEPT !.err = "invoke-error"]]
    /\ UNCHANGED <<upstream, startupVars, toolsCache, conns>>

\* _call_tool, lines 175-176: invoke and extract, or one of the two raises
CallInvoke(c) ==
    /\ calls[c].pc = "invoke"
    /\ \E ok \in BOOLEAN :
        LET call == [calls[c] EXCEPT !.pc = "close", !.nInvoke = @ + 1,
                                     !.sent = <<calls[c].action, calls[c].params>>]
            ext == ExtractContent(upstream.reply)
        IN  IF ok
            THEN calls' = [calls EXCEPT ![c] =
                     [call EXCEPT !.upOk = TRUE, !.reply = upstream.reply,
                                  !.err = IF ext.raised THEN "TypeError" ELSE "",
                                  !.val = ext.s]]
            ELSE calls' = [calls EXCEPT ![c] =
                     [call EXCEPT !.err = "invoke-error"]]
    /\ UNCHANGED <<upstream, startupVars, toolsCache, conns>>

\* the with block is left and the connection released; then the except clause
\* (lines 158-159, 177-178), the list response (lines 161-164) or the
\* extracted text (line 176) is returned
CallClose(c) ==
    /\ calls[c].pc = "close"
    /\ conns' = conns \ {c}
    /\ LET call == calls[c]
       IN  IF call.err # ""
           THEN calls' = [calls EXCEPT ![c].pc = "done",
                                       ![c].out = OnError(call, call.err).out,
                                       ![c].ret = OnError(call, call.err).ret]
           ELSE calls' = [calls EXCEPT ![c].pc = "done",
                                       ![c].out = "returned",
                                       ![c].ret =
                               IF call.handler = "list"
                               THEN FormatList(call.server.name,
                                               toolsCache[call.server.name])
                               ELSE call.val]
    /\ UNCHANGED <<upstream, startupVars, toolsCache>>

\* a cancellation that drops the call and leaves its connection open
CallCancelLeaks(c) ==
    /\ calls[c].pc \in {"connect", "enumerate", "invoke", "close"}
    /\ calls' = [calls EXCEPT ![c].pc = "cancelled", ![c].out = "cancelled",
                              ![c].err = "CancelledError"]
    /\ UNCHANGED <<upstream, startupVars, toolsCache, conns>>

\* the consumer aborts the call while it is suspended at an await (opening the
\* client, lines 152 and 174; enumerate, line 153; invoke, line 175; leaving
\* the with block): CancelledError is raised there, the with block releases
\* the connection, and the error, which is no Exception, passes the except
\* clauses of lines 158 and 177, so the call returns nothing
CallCancel(c) ==
    /\ calls[c].pc \in {"connect", "enumerate", "invoke", "close"}
    /\ conns' = conns \ {c}
    /\ calls' = [calls EXCEPT ![c].pc = "cancelled", ![c].out = "cancelled",
                              ![c].err = "CancelledError"]
    /\ UNCHANGED <<upstream, startupVars, toolsCache>>

Next ==
    \/ LoadConfig
    \/ LoadEntry
    \/ LoadReturn
    \/ AddServer
    \/ FetchConnect
    \/ FetchEnumerate
    \/ FetchClose
    \/ Run
    \/ \E c \in Slots : CallStart(c)
    \/ \E c \in Slots : CallConnect(c)
    \/ \E c \in Slots : CallEnumerate(c)
    \/ \E c \in Slots : CallInvoke(c)
    \/ \E c \in Slots : CallClose(c)
    \/ \E c \in Slots : CallCancel(c)

Spec == Init /\ [][Next]_vars

(* ------------------------- reading a response -------------------------- *)

Contains(s, tok) == \E i \in 1..Len(s) : s[i] = tok

IsText(s) == \A i \in 1..Len(s) : s[i] \in STRING

\* the lines of s that begin with the bullet prefix
BulletLines(s) ==
    Cardinality({ i \in 1..Len(s) :
                    /\ i = 1 \/ s[i - 1] = NL
                    /\ i + Len(BulletPrefix) - 1 <= Len(s)
                    /\ SubSeq(s, i, i + Len(BulletPrefix) - 1) = BulletPrefix })

Done(c) == calls[c].pc = "done"

ClientErrors == {"connect-error", "enumerate-error", "invoke-error"}

(* ------------------------------- claims -------------------------------- *)

\* C1: every routed call that has ended has returned a string, whatever the
\* ProtocolClient did (connect, enumerate or invoke failed, or the result made
\* extraction raise): no call ends by raising past the entry point.
C1_AlwaysReturnsString ==
    \A c \in Slots :
        /\ calls[c].out # "raised"
        /\ Done(c) => calls[c].out = "returned" /\ IsText(calls[c].ret)

\* C1 witness: an invoke call whose result made extraction raise has ended,
\* and one whose connection failed has ended.
C1_Witness ==
    /\ Done("c1") /\ calls["c1"].upOk /\ calls["c1"].err = "TypeError"
    /\ Done("c2") /\ calls["c2"].err = "connect-error"

\* C2 as stated: a ProtocolClient failure during a list or an invoke call yields
\* a string carrying the failure marker, the subsystem name and, for invoke,
\* the action name.
C2_Original ==
    \A c \in Slots :
        Done(c) /\ calls[c].err \in ClientErrors =>
            /\ Contains(calls[c].ret, "FAIL")
            /\ Contains(calls[c].ret, calls[c].server.name)
            /\ calls[c].handler = "invoke" =>
                   Contains(calls[c].ret, calls[c].action)

\* C2 amended: a ProtocolClient failure yields a string that begins with the
\* failure marker and ends with the text of the error; for an invoke call it
\* carries the subsystem name and the action name, for a list call it carries
\* neither.
C2_FailureString ==
    \A c \in Slots :
        Done(c) /\ calls[c].err \in ClientErrors =>
            LET r == calls[c].ret
            IN  /\ calls[c].out = "returned"
                /\ r # <<>> /\ r[1] = "FAIL" /\ r[Len(r)] = calls[c].err
                /\ calls[c].handler = "invoke" =>
                       /\ Contains(r, calls[c].server.name)
                       /\ Contains(r, calls[c].action)
                /\ calls[c].handler = "list" =>
                       ~Contains(r, calls[c].server.name)

\* C2 witness: a list call failed at enumerate and an invoke call failed.
C2_Witness ==
    /\ Done("c1") /\ calls["c1"].handler = "list"
    /\ calls["c1"].err = "enumerate-error"
    /\ Done("c2") /\ calls["c2"].handler = "invoke"
    /\ calls["c2"].err = "invoke-error"

\* a list call of slot c begins in this step
ListBegins(c) ==
    calls[c].pc = "idle" /\ calls'[c].pc # "idle" /\ calls'[c].handler = "list"

\* C3: a list call that finds no cache entry makes exactly one discovery (it
\* opens one client, and enumerates once unless opening failed); a list call
\* that begins once the entry is there, written by an earlier list call or by
\* start-up discovery, is answered from the cache with no connection and no
\* enumerate call; and an entry, once written, is never removed.
C3_OneDiscovery ==
    [][ /\ \A c \in Slots :
            /\ ListBegins(c) /\ calls'[c].server.name \in DOMAIN toolsCache =>
                   /\ calls'[c].pc = "done" /\ calls'[c].hit
                   /\ calls'[c].ret = FormatList(calls'[c].server.name,
                                         toolsCache[calls'[c].server.name])
            /\ ListBegins(c) /\ calls'[c].server.name \notin DOMAIN toolsCache =>
                   calls'[c].pc = "connect" /\ ~calls'[c].hit
            /\ calls'[c].handler = "list" =>
                   /\ calls'[c].nInvoke = 0
                   /\ calls'[c].hit =>
                          calls'[c].nConn = 0 /\ calls'[c].nEnum = 0
                   /\ calls'[c].pc = "done" /\ ~calls'[c].hit =>
                          /\ calls'[c].nConn = 1
                          /\ calls'[c].nEnum =
                                 IF calls'[c].err = "connect-error" THEN 0 ELSE 1
        /\ \A n \in DOMAIN toolsCache : n \in DOMAIN toolsCache' ]_vars

\* C3 witness: two list calls on one subsystem have ended; the first missed the
\* cache and filled it with its one discovery, the second was answered from it.
C3_Witness ==
    /\ Done("c1") /\ calls["c1"].handler = "list" /\ ~calls["c1"].hit
    /\ calls["c1"].upOk /\ calls["c1"].nEnum = 1
    /\ Done("c2") /\ calls["c2"].handler = "list" /\ calls["c2"].hit
    /\ calls["c2"].nConn = 0
    /\ calls["c2"].server.name = calls["c1"].server.name

\* the entry the list response of call c was formatted from
CachedFor(c) == toolsCache[calls[c].server.name]

\* C4 as stated: a list call always returns a string that begins with the
\* subsystem name and a count, and the count is the number of bulleted lines
\* of the string (the number of cached long-form entries).
C4_Original ==
    \A c \in Slots :
        Done(c) /\ calls[c].handler = "list" =>
            LET r == calls[c].ret
            IN  /\ Len(r) >= Len(ListHeader("", 0))
                /\ r[1] = "PKG" /\ r[4] = calls[c].server.name
                /\ r[10] = ToString(BulletLines(r))
                /\ calls[c].server.name \in DOMAIN toolsCache
                /\ BulletLines(r) = Len(CachedFor(c))

\* C4 amended: a list call that does not fail returns a string that begins
\* with the package marker, the bracketed subsystem name and a count; the count
\* is the number of long-form entries cached for the subsystem (zero
\* included), each of which is written on a line of its own behind the bullet
\* prefix, so the count is the number of bulleted lines unless a cached
\* description itself holds a line that begins with the bullet prefix.
C4_ListCount ==
    \A c \in Slots :
        Done(c) /\ calls[c].handler = "list" /\ calls[c].err = "" =>
            LET r == calls[c].ret
                k == Len(CachedFor(c))
            IN  /\ SubSeq(r, 1, 5) = <<"PKG", " ", "[", calls[c].server.name, "]">>
                /\ r[10] = ToString(k)
                /\ BulletLines(r) >= k
                /\ (\A i \in 1..k : BulletLines(CachedFor(c)[i]) = 0) =>
                       BulletLines(r) = k

\* C4 witness: a list call has returned a list of two entries, one of them
\* with a description of two lines, and another has returned an empty list.
C4_Witness ==
    \E c, d \in Slots :
        /\ Done(c) /\ calls[c].handler = "list" /\ calls[c].err = ""
        /\ Len(CachedFor(c)) = 2 /\ Contains(calls[c].ret, NL)
        /\ BulletLines(calls[c].ret) = 2
        /\ Done(d) /\ calls[d].handler = "list" /\ calls[d].err = ""
        /\ Len(CachedFor(d)) = 0

\* what the claim lets one content item contribute
ClaimedPart(item) ==
    IF "text" \in DOMAIN item THEN PyStr(item.text)
    ELSE IF "data" \in DOMAIN item THEN PyStr(item.data)
    ELSE ObjStr(item)

\* C5: an invoke call whose upstream invocation succeeded returns the parts of
\* all content items joined by newlines, in order (text, else data stringified,
\* else the item stringified), or the string form of the whole result when it
\* has no content items.
C5_InvokeJoinsContent ==
    \A c \in Slots :
        Done(c) /\ calls[c].handler = "invoke" /\ calls[c].upOk =>
            LET res == calls[c].reply
            IN  IF "content" \notin DOMAIN res \/ res.content = <<>>
                THEN calls[c].ret = ObjStr(res)
                ELSE calls[c].ret =
                         Join([i \in 1..Len(res.content) |->
                                   ClaimedPart(res.content[i])], <<NL>>)

Least(S) == CHOOSE i \in S : \A j \in S : i <= j
Greatest(S) == CHOOSE i \in S : \A j \in S : j <= i

\* the entries of the file load_config was called with
LoadedEntries ==
    IF "mcpServers" \in DOMAIN loaded.file THEN loaded.file.mcpServers ELSE <<>>

\* the entries of that file that have no command
BadEntries ==
    { i \in 1..Len(LoadedEntries) : "command" \notin DOMAIN LoadedEntries[i].cfg }

\* C6: when load_config returns from a valid configuration of N subsystems
\* (N = 0 when there is no mcpServers key), register has been called N times,
\* once per subsystem in file order with the name "use_" + subsystem name, and
\* the registry holds exactly these N entry points, however each start-up
\* discovery ended.
C6_OneEntryPointPerSubsystem ==
    [][ phase = "loading" /\ phase' = "setup" =>
            /\ BadEntries = {}
            /\ Len(regLog') = Len(LoadedEntries)
            /\ \A i \in 1..Len(LoadedEntries) :
                   regLog'[i].name = "use_" \o LoadedEntries[i].name
            /\ DOMAIN registry' =
                   { "use_" \o LoadedEntries[i].name : i \in 1..Len(LoadedEntries) }
            /\ Cardinality(DOMAIN registry') = Len(LoadedEntries) ]_vars

\* C6 witness: a configuration of two subsystems has been loaded, the discovery
\* of one failed and that of the other succeeded, and both have an entry point.
C6_Witness ==
    /\ loaded.called /\ phase = "running" /\ Len(LoadedEntries) = 2
    /\ Cardinality(DOMAIN registry) = 2 /\ Len(regLog) = 2
    /\ \E n, m \in DOMAIN servers :
           /\ servers[n].tools = <<>> /\ n \notin DOMAIN toolsCache
           /\ servers[m].tools # <<>>

\* the register calls made for subsystem name n
RegsOf(n) == { i \in 1..Len(regLog) : regLog[i].server.name = n }

\* C7: whenever configs have been registered under a name, once or twice, the
\* name has one entry in the subsystem map and one entry point, both holding
\* the config registered last and the description built at that registration,
\* and every call through that entry point is made for that config and
\* connects with its connection parameters.
C7_LastWriteWins ==
    \A n \in Names :
        RegsOf(n) # {} =>
            LET last == regLog[Greatest(RegsOf(n))]
                ep == "use_" \o n
            IN  /\ n \in DOMAIN servers /\ servers[n] = last.server
                /\ ep \in DOMAIN registry
                /\ registry[ep].server = last.server
                /\ registry[ep].description = last.description
                /\ Cardinality({ e \in DOMAIN registry :
                                   registry[e].server.name = n }) = 1
                /\ \A c \in Slots :
                       calls[c].pc # "idle" /\ calls[c].ep = ep =>
                           /\ calls[c].server = last.server
                           /\ calls[c].nConn > 0 =>
                                  calls[c].target =
                                      [name |-> n,
                                       command |-> last.server.command,
                                       args |-> last.server.args,
                                       env |-> last.server.env]

\* C7 witness: two configs with different commands and arguments were
\* registered under one name and a call through its entry point has connected.
C7_Witness ==
    /\ Len(regLog) = 2
    /\ regLog[1].server.name = regLog[2].server.name
    /\ regLog[1].server.command # regLog[2].server.command
    /\ regLog[1].server.args # regLog[2].server.args
    /\ regLog[1].description # regLog[2].description
    /\ \E c \in Slots :
           /\ Done(c) /\ calls[c].nConn = 1
           /\ calls[c].target.command = regLog[2].server.command

\* an add_server whose discovery failed ends in this step
FailedAddEnds ==
    /\ addStage' = "idle"
    /\ addStage = "connect" \/ (addStage = "close" /\ ~addResult.ok)

\* C8: when start-up discovery fails (the client cannot be opened, or the
\* enumerate call fails), add_server still puts the subsystem in the subsystem
\* map and registers its entry point, the description registered has no
\* preview block, and no step of the failed discovery writes the tool cache.
C8_FailedDiscoveryStillRegisters ==
    [][ /\ FailedAddEnds =>
               LET n == addServer.name
                   ep == "use_" \o n
               IN  /\ n \in DOMAIN servers' /\ servers'[n] = addServer
                   /\ ep \in DOMAIN registry'
                   /\ registry'[ep].server = addServer
                   /\ ~Contains(registry'[ep].description, "**tool-list**")
                   /\ Len(regLog') = Len(regLog) + 1
                   /\ regLog'[Len(regLog')].name = ep
                   /\ toolsCache' = toolsCache
        /\ addStage = "connect" => toolsCache' = toolsCache
        /\ addStage = "enumerate" /\ ~addResult'.ok => toolsCache' = toolsCache
      ]_vars

\* C8 witness: a subsystem whose upstream has operations is registered with
\* no discovered operations, no cache entry and an entry point.
C8_Witness ==
    \E n \in DOMAIN servers :
        /\ upstream.tools[servers[n].command] # <<>>
        /\ servers[n].tools = <<>> /\ n \notin DOMAIN toolsCache
        /\ ("use_" \o n) \in DOMAIN registry
        /\ phase = "running"

\* C9 as stated: when the configuration has an entry with no command, the load
\* fails and no subsystem of the configuration is registered, wherever the
\* entry stands.
C9_Original ==
    loaded.called /\ BadEntries # {} =>
        /\ phase \in {"loading", "failed"}
        /\ phase = "failed" =>
               \A i \in 1..Len(LoadedEntries) :
                   /\ LoadedEntries[i].name \notin DOMAIN servers
                   /\ ("use_" \o LoadedEntries[i].name) \notin DOMAIN registry

\* C9 amended: when the configuration has an entry with no command,
\* load_config raises at the first such entry: the entries before it have been
\* registered (subsystem map and entry point), no entry at or after it is, and
\* the gateway never runs and serves no call.
C9_LoadFailsAtFirstBadEntry ==
    loaded.called /\ BadEntries # {} =>
        /\ phase \in {"loading", "failed"}
        /\ \A c \in Slots : calls[c].pc = "idle"
        /\ phase = "failed" =>
               LET k == Least(BadEntries)
               IN  /\ DOMAIN servers = { LoadedEntries[i].name : i \in 1..(k - 1) }
                   /\ DOMAIN registry =
                          { "use_" \o LoadedEntries[i].name : i \in 1..(k - 1) }
                   /\ Len(regLog) = k - 1
                   /\ addStage = "idle"

\* C9 witness: the load has failed at the second entry, the first is registered.
C9_Witness ==
    /\ phase = "failed" /\ BadEntries = {2}
    /\ DOMAIN servers = {LoadedEntries[1].name}
    /\ Cardinality(DOMAIN registry) = 1

\* the description of an upstream operation, the default text when it has none
FullDesc(t) ==
    IF t.description.t = "none" \/ t.description.v = <<>>
    THEN <<"wu", "miao", "shu">> ELSE t.description.v

\* s without the white space at its ends, cut at its first newline
StrippedFirstLine(s) ==
    LET ink == { i \in 1..Len(s) : s[i] \notin {" ", NL, "\t"} }
        body == IF ink = {} THEN <<>> ELSE SubSeq(s, Least(ink), Greatest(ink))
        nls == { i \in 1..Len(body) : body[i] = NL }
    IN  IF nls = {} THEN body ELSE SubSeq(body, 1, Least(nls) - 1)

\* the short forms discovery made for a config, against the operations its
\* upstream enumerates and the long forms in the cache
ShortFormsAgree(server, shorts, Line(_)) ==
    LET ups == upstream.tools[server.command]
        n == server.name
    IN  /\ Len(shorts) = Len(ups)
        /\ n \in DOMAIN toolsCache /\ Len(toolsCache[n]) = Len(ups)
        /\ \A i \in 1..Len(ups) :
               LET d == Line(FullDesc(ups[i]))
                   short == SubSeq(shorts[i], 4, Len(shorts[i]))
               IN  /\ SubSeq(shorts[i], 1, 3) = <<ups[i].name, ":", " ">>
                   /\ Len(short) <= 80
                   /\ Len(d) > 80 => short = SubSeq(d, 1, 77) \o <<".", ".", ".">>
                   /\ Len(d) <= 80 => short = d
                   /\ toolsCache[n][i] = <<ups[i].name, ":", " ">> \o FullDesc(ups[i])

\* what start-up discovery returned for the config being added, and what it
\* left in every config registered
DiscoveryGives(Line(_)) ==
    /\ addStage = "close" /\ addResult.ok =>
           ShortFormsAgree(addServer, addResult.tools, Line)
    /\ addStage = "idle" =>
           \A n \in DOMAIN servers :
               servers[n].tools # <<>> =>
                   ShortFormsAgree(servers[n], servers[n].tools, Line)

Whole(s) == s

\* C10 as stated: the short form of every enumerated operation has a
\* description of at most 80 characters: the description cut to 77 characters
\* and the ellipsis when it is longer than 80, the whole description otherwise;
\* the long form in the cache is the whole description.
C10_Original == DiscoveryGives(Whole)

\* C10 amended: the short form is made from the first line of the description
\* with the white space at its ends removed (the default text when there is no
\* description): that line cut to its first 77 characters and the ellipsis
\* when it is longer than 80 characters, that line whole otherwise, so at most
\* 80 characters; the long form in the cache is the whole description, all
\* lines and white space kept.
C10_ShortFormCap == DiscoveryGives(StrippedFirstLine)

\* C10 witness: discovery has returned, for an operation whose one-line
\* description is longer than 80 characters, a short form of 80 characters,
\* with a longer long form in the cache.
C10_Witness ==
    /\ addStage = "close" /\ addResult.ok /\ addResult.tools # <<>>
    /\ Len(StrippedFirstLine(FullDesc(upstream.tools[addServer.command][1]))) > 80
    /\ Len(addResult.tools[1]) = 3 + 80
    /\ Len(toolsCache[addServer.name][1]) > 3 + 80

RECURSIVE SplitLines(_)
\* the lines of s
SplitLines(s) ==
    LET nls == { i \in 1..Len(s) : s[i] = NL }
    IN  IF nls = {} THEN <<s>>
        ELSE <<SubSeq(s, 1, Least(nls) - 1)>>
                 \o SplitLines(SubSeq(s, Least(nls) + 1, Len(s)))

\* the lines of description d that follow the heading of the preview block
PreviewLines(d) ==
    LET ls == SplitLines(d)
        h == { i \in 1..Len(ls) : Contains(ls[i], "**tool-list**") }
    IN  IF h = {} THEN <<>> ELSE SubSeq(ls, Least(h) + 1, Len(ls))

InFlight(c) == calls[c].pc \in {"connect", "enumerate", "invoke", "close"}

Cancelled(c) == calls[c].pc = "cancelled"

\* the operations that have opened a client and not yet left its with block
Holders ==
    { c \in Slots : calls[c].pc \in {"enumerate", "invoke", "close"} }
    \cup (IF addStage \in {"enumerate", "close"} THEN {"startup"} ELSE {})

\* no start-up discovery and no call is in flight
Quiescent == addStage = "idle" /\ \A c \in Slots : ~InFlight(c)

\* list call c got its enumerate result and wrote it to the cache
WroteCache(c) == calls[c].handler = "list" /\ calls[c].upOk

\* the long-form lists one enumerate call can give
EnumerateResults == { LongForms(upstream.tools[cmd]) : cmd \in Commands }

\* C12 as stated: only operations in flight hold a connection, so none is
\* open when nothing is in flight, and a cancelled call has returned nothing
\* and has written nothing to the tool cache.
C12_Original ==
    /\ conns \subseteq Holders
    /\ Quiescent => conns = {}
    /\ \A c \in Slots :
           Cancelled(c) =>
               /\ calls[c].out # "returned" /\ calls[c].ret = <<>>
               /\ ~WroteCache(c)

\* C12 amended: only operations in flight hold a connection; every step that
\* ends an operation (return, failure string, cancellation, end of start-up
\* discovery) leaves its connection released, so none is open when nothing is
\* in flight; a cancelled call returns nothing, and the step that cancels it
\* writes nothing to the tool cache.  A call cancelled while it opens the
\* client or while it enumerates has written nothing; a list call cancelled
\* after its enumerate call returned, while its connection is being released,
\* has already written the complete list of that one result.
C12_ReleaseOnEveryExit ==
    [][ /\ conns' \subseteq Holders'
        /\ Quiescent' => conns' = {}
        /\ addStage # "idle" /\ addStage' = "idle" => "startup" \notin conns'
        /\ \A c \in Slots :
               /\ InFlight(c) /\ ~InFlight(c)' => c \notin conns'
               /\ Cancelled(c)' =>
                      /\ calls'[c].out # "returned" /\ calls'[c].ret = <<>>
                      /\ WroteCache(c)' =>
                             /\ calls'[c].nEnum = 1
                             /\ calls'[c].server.name \in DOMAIN toolsCache'
                             /\ toolsCache'[calls'[c].server.name]
                                    \in EnumerateResults
               /\ ~Cancelled(c) /\ Cancelled(c)' =>
                      /\ toolsCache' = toolsCache
                      /\ calls[c].pc \in {"connect", "enumerate", "invoke"} =>
                             ~WroteCache(c)' ]_vars

\* C12 witness: a list call was cancelled while it enumerated, another after
\* it had written the cache, and no connection is left open.
C12_Witness ==
    /\ Cancelled("c1") /\ calls["c1"].handler = "list"
    /\ calls["c1"].nConn = 1 /\ calls["c1"].nEnum = 0
    /\ Cancelled("c2") /\ WroteCache("c2")
    /\ conns = {}

\* list calls c and d were made on one subsystem and both missed the cache
BothMissed(c, d) ==
    /\ c # d
    /\ calls[c].pc # "idle" /\ calls[d].pc # "idle"
    /\ calls[c].handler = "list" /\ calls[d].handler = "list"
    /\ calls[c].ep = calls[d].ep
    /\ ~calls[c].hit /\ ~calls[d].hit

\* what one enumerate call of call c gives, in long form
SingleResult(c) == LongForms(upstream.tools[calls[c].server.command])

\* C13 as stated: the cache entry of a subsystem is absent or the complete
\* list of one enumerate result; every one of two list calls on a subsystem
\* that both missed the cache returns a list response whose count is the
\* number of its bulleted lines; and the entry they leave is the one a
\* single call would have written.
C13_Original ==
    /\ \A n \in DOMAIN toolsCache : toolsCache[n] \in EnumerateResults
    /\ \A c, d \in Slots :
           BothMissed(c, d) /\ Done(c) =>
               LET r == calls[c].ret
               IN  /\ Len(r) >= Len(ListHeader("", 0))
                   /\ r[1] = "PKG" /\ r[4] = calls[c].server.name
                   /\ r[10] = ToString(BulletLines(r))
                   /\ toolsCache[calls[c].server.name] = SingleResult(c)

\* C13 amended: the cache entry of a subsystem is absent or the complete
\* long-form list of one enumerate result; of two list calls on a subsystem
\* that both missed the cache, each one whose own discovery succeeded returns
\* the list response a single call would return (the bracketed name, the count
\* of entries, one bullet-prefixed line per entry, so the count is the number
\* of bulleted lines unless a description itself holds such a line), each one
\* whose discovery failed returns the failure string, whatever the other did,
\* and once either has written the cache the entry is the one a single call
\* would have written.
C13_ConcurrentMisses ==
    /\ \A n \in DOMAIN toolsCache : toolsCache[n] \in EnumerateResults
    /\ \A c, d \in Slots :
           BothMissed(c, d) =>
               LET r == calls[c].ret
                   n == calls[c].server.name
                   k == Len(SingleResult(c))
               IN  /\ WroteCache(c) \/ WroteCache(d) =>
                          n \in DOMAIN toolsCache
                              /\ toolsCache[n] = SingleResult(c)
                   /\ Done(c) /\ calls[c].err = "" =>
                          /\ WroteCache(c)
                          /\ SubSeq(r, 1, 5) = <<"PKG", " ", "[", n, "]">>
                          /\ r[10] = ToString(k)
                          /\ BulletLines(r) >= k
                          /\ (\A i \in 1..k :
                                 BulletLines(SingleResult(c)[i]) = 0) =>
                                 BulletLines(r) = k
                          /\ \A i \in 1..k :
                                 \E j \in 1..Len(r) :
                                     SubSeq(r, j, j + Len(SingleResult(c)[i]) - 1)
                                         = SingleResult(c)[i]
                   /\ Done(c) /\ calls[c].err # "" =>
                          ~WroteCache(c) /\ r[1] = "FAIL"

\* C13 witness: two list calls on one subsystem of two operations both missed
\* the cache, both enumerated and wrote it, and both have returned.
C13_Witness ==
    /\ BothMissed("c1", "c2")
    /\ Done("c1") /\ WroteCache("c1")
    /\ Done("c2") /\ WroteCache("c2")
    /\ Len(SingleResult("c1")) = 2

\* the subsystem names start-up has yet to discover: the one being added, those
\* load_config has yet to visit, those the start-up program has yet to add
Undiscovered ==
    (IF addStage # "idle" THEN {addServer.name} ELSE {})
    \cup { pending[i].name : i \in 1..Len(pending) }
    \cup { script[i].server.name :
               i \in { j \in 1..Len(script) : script[j].op = "add_server" } }
    \cup UNION { { f.mcpServers[k].name : k \in 1..Len(f.mcpServers) } :
                    f \in { script[j].file :
                               j \in { i \in 1..Len(script) :
                                         /\ script[i].op = "load_config"
                                         /\ "mcpServers" \in DOMAIN script[i].file } } }

\* C14: a call starts only through an entry point that is registered, when
\* the gateway runs and no start-up discovery is in progress or still to come
\* (for its subsystem or any other); and every registration is made when the
\* discovery of that config has ended, with a description built from its
\* outcome: the short forms it returned, or no preview block when it failed.
C14_DiscoveryBeforeReachable ==
    [][ /\ \A c \in Slots :
               calls[c].pc = "idle" /\ calls'[c].pc # "idle" =>
                   /\ phase = "running" /\ addStage = "idle"
                   /\ calls'[c].server.name \notin Undiscovered
                   /\ Undiscovered = {}
                   /\ calls'[c].ep \in DOMAIN registry
                   /\ RegsOf(calls'[c].server.name) # {}
                   /\ registry[calls'[c].ep].description =
                          regLog[Greatest(RegsOf(calls'[c].server.name))].description
        /\ regLog' # regLog =>
               LET reg == regLog'[Len(regLog')]
                   ok == addStage = "close" /\ addResult.ok
                   got == IF ok THEN addResult.tools ELSE <<>>
                   k == IF Len(got) < 30 THEN Len(got) ELSE 30
                   P == PreviewLines(reg.description)
               IN  /\ addStage \in {"connect", "close"} /\ addStage' = "idle"
                   /\ reg.server.name = addServer.name
                   /\ \A c \in Slots : calls[c].pc = "idle"
                   /\ reg.server.tools = got
                   /\ registry'[reg.name].description = reg.description
                   /\ got = <<>> => ~Contains(reg.description, "**tool-list**")
                   /\ got # <<>> =>
                          /\ Len(P) >= k
                          /\ \A j \in 1..k : P[j] = <<"-", " ">> \o got[j]
      ]_vars

\* C14 witness: two subsystems were registered, the discovery of one gave
\* operations and that of the other failed, and a call on each has started.
C14_Witness ==
    /\ Len(regLog) = 2 /\ regLog[1].name # regLog[2].name
    /\ regLog[1].server.tools = <<>> /\ regLog[2].server.tools # <<>>
    /\ calls["c1"].pc # "idle" /\ calls["c1"].ep = regLog[1].name
    /\ calls["c2"].pc # "idle" /\ calls["c2"].ep = regLog[2].name

\* a call of add_server ends in this step with the registration of its config
Registers == regLog' # regLog

\* C15: the subsystem map changes only when add_server registers a config,
\* and then only at that config's name; the config registered is the one
\* add_server was given, its short-form field either still empty (discovery
\* failed) or filled once with what that discovery returned; no step of a
\* list or invoke call changes the subsystem map, a registered entry point or
\* the config a call has captured, even when a lazy list call fills the cache
\* for a subsystem whose short-form field is empty.
C15_ConfigImmutable ==
    [][ /\ SubSeq(regLog', 1, Len(regLog)) = regLog
        /\ \A n \in DOMAIN servers :
               /\ n \in DOMAIN servers'
               /\ servers'[n] # servers[n] =>
                      Registers /\ regLog'[Len(regLog')].server.name = n
        /\ Registers =>
               LET new == regLog'[Len(regLog')].server
               IN  /\ servers'[new.name] = new
                   /\ addServer.tools = <<>>
                   /\ [new EXCEPT !.tools = <<>>] = addServer
                   /\ new.tools # <<>> =>
                          /\ addStage = "close" /\ addResult.ok
                          /\ new.tools = addResult.tools
        /\ addStage # "idle" /\ addStage' # "idle" => addServer' = addServer
        /\ phase = "running" =>
               /\ servers' = servers /\ registry' = registry
               /\ regLog' = regLog
        /\ \A c \in Slots :
               /\ calls[c].pc # "idle" => calls'[c].server = calls[c].server
               /\ calls'[c].pc # "idle" =>
                      calls'[c].server = servers'[calls'[c].server.name]
      ]_vars

\* C15 witness: the start-up discovery of a subsystem failed, a list call has
\* since filled the cache with its operations and a second list call was
\* answered from it, and the short-form field of its config is still empty.
C15_Witness ==
    \E n \in DOMAIN servers :
        /\ servers[n].tools = <<>>
        /\ n \in DOMAIN toolsCache /\ toolsCache[n] # <<>>
        /\ Done("c1") /\ WroteCache("c1") /\ calls["c1"].server.name = n
        /\ Done("c2") /\ calls["c2"].hit /\ calls["c2"].server.name = n
        /\ registry["use_" \o n].server.tools = <<>>

\* C16: an invoke call opens one connection, its own: the step that opens it
\* is the call's only attempt, adds that connection alone and finds none of
\* its own open; the operation is sent at most once, over that connection,
\* and never after a failure; the call enumerates nothing; and a call that has
\* ended has opened exactly one connection, sent at most one invocation (none
\* exactly when the connection could not be opened) and holds no connection.
C16_OneConnectionPerInvoke ==
    [][ \A c \in Slots :
            calls'[c].handler = "invoke" =>
                /\ calls'[c].nEnum = 0
                /\ calls'[c].nConn > calls[c].nConn =>
                       /\ calls[c].nConn = 0 /\ calls'[c].nConn = 1
                       /\ c \notin conns
                       /\ conns' \in {conns, conns \cup {c}}
                       /\ c \in conns' \/ calls'[c].err = "connect-error"
                /\ calls'[c].nInvoke > calls[c].nInvoke =>
                       /\ calls[c].nInvoke = 0 /\ calls'[c].nInvoke = 1
                       /\ c \in conns /\ calls[c].nConn = 1
                       /\ calls[c].err = ""
                /\ calls[c].pc # "idle" /\ calls[c].err # "" =>
                       /\ calls'[c].nConn = calls[c].nConn
                       /\ calls'[c].nInvoke = calls[c].nInvoke
                /\ Done(c)' =>
                       /\ calls'[c].nConn = 1 /\ calls'[c].nInvoke <= 1
                       /\ calls'[c].nInvoke = 0 <=>
                              calls'[c].err = "connect-error"
                       /\ c \notin conns' ]_vars

\* C16 witness: two invoke calls have ended, one whose invocation failed and
\* one whose invocation succeeded; each opened one connection and sent once.
C16_Witness ==
    /\ Done("c1") /\ calls["c1"].handler = "invoke"
    /\ calls["c1"].err = "invoke-error"
    /\ calls["c1"].nConn = 1 /\ calls["c1"].nInvoke = 1
    /\ Done("c2") /\ calls["c2"].handler = "invoke" /\ calls["c2"].upOk
    /\ calls["c2"].nConn = 1 /\ calls["c2"].nInvoke = 1

\* C17: a call is handled by the list handler exactly when its action is
\* "list", whatever its params; a call handled by the list handler sends no
\* invocation upstream; any other action, one that differs from "list" by its
\* case included, is handled by the invoke handler, which enumerates nothing
\* and sends that action and the params it was given, unchanged, over a
\* connection opened with the connection parameters of the config captured by
\* the entry point that was called, whose name is that of the entry point.
C17_RoutesOnAction ==
    \A c \in Slots :
        calls[c].pc # "idle" =>
            /\ calls[c].action \in Actions
            /\ calls[c].action = "list" =>
                   /\ calls[c].handler = "list"
                   /\ calls[c].nInvoke = 0 /\ calls[c].sent = <<>>
            /\ calls[c].action # "list" =>
                   /\ calls[c].handler = "invoke"
                   /\ calls[c].nEnum = 0 /\ ~calls[c].hit
                   /\ calls[c].nInvoke > 0 =>
                          calls[c].sent = <<calls[c].action, calls[c].params>>
            /\ calls[c].server = registry[calls[c].ep].server
            /\ calls[c].nConn > 0 =>
                   /\ calls[c].ep = "use_" \o calls[c].target.name
                   /\ calls[c].target.command = registry[calls[c].ep].server.command
                   /\ calls[c].target.args = registry[calls[c].ep].server.args
                   /\ calls[c].target.env = registry[calls[c].ep].server.env

\* C17 witness: with two subsystems registered, a call with action "List" was
\* sent upstream as an invocation of "List" through one entry point, and a
\* call with action "list" and params was handled by the list handler of the
\* other.
C17_Witness ==
    /\ Cardinality(DOMAIN registry) = 2
    /\ Done("c1") /\ calls["c1"].action = "List"
    /\ calls["c1"].nInvoke = 1 /\ calls["c1"].sent = <<"List", "{}">>
    /\ Done("c2") /\ calls["c2"].action = "list"
    /\ calls["c2"].params = "{k:v}" /\ calls["c2"].nEnum = 1
    /\ calls["c1"].ep # calls["c2"].ep

\* C18: extraction never fails: whatever result a successful invocation gave
\* (no content, empty content, items with a text field of any value, with a
\* data field only, or with neither), _extract_content returns a string, and
\* that string is what the call returns.
C18_ExtractionTotal ==
    \A c \in Slots :
        calls[c].handler = "invoke" /\ calls[c].upOk =>
            /\ ~ExtractContent(calls[c].reply).raised
            /\ calls[c].err # "TypeError"
            /\ Done(c) =>
                   /\ IsText(calls[c].ret)
                   /\ calls[c].ret = ExtractContent(calls[c].reply).s

\* C19: once add_server has returned, the cache entry of a registered name is
\* the long-form list enumerated from the config now registered under that
\* name, and a list call on the name returns that list and not the one
\* enumerated from a config it replaced.
C19_CacheOfRegisteredConfig ==
    addStage = "idle" =>
        /\ \A n \in DOMAIN toolsCache :
               /\ n \in DOMAIN servers
               /\ toolsCache[n] = LongForms(upstream.tools[servers[n].command])
        /\ \A c \in Slots :
               Done(c) /\ calls[c].handler = "list" /\ calls[c].err = "" =>
                   calls[c].ret =
                       FormatList(calls[c].server.name,
                                  LongForms(upstream.tools[
                                      servers[calls[c].server.name].command]))

\* call c takes a step
Steps(c) == calls'[c] # calls[c]

\* C20: a list call whose discovery fails writes no cache entry and changes
\* neither the subsystem map nor the registry: the cache is written only by
\* the enumerate step of a discovery that succeeds; a list call that begins
\* while its subsystem has no entry, after a failed one too, starts a
\* discovery of its own, and fills the cache when it succeeds; and no step of
\* an invoke call changes the cache, nor does what it returns depend on it.
C20_FailedListNotCached ==
    [][ /\ toolsCache' # toolsCache =>
               \/ addStage = "enumerate" /\ addResult'.ok
               \/ \E c \in Slots :
                      /\ calls[c].pc = "enumerate" /\ calls[c].handler = "list"
                      /\ calls'[c].upOk /\ calls'[c].err = ""
                      /\ toolsCache' =
                             (calls[c].server.name :> SingleResult(c)) @@ toolsCache
        /\ \A c \in Slots :
               /\ Steps(c) => servers' = servers /\ registry' = registry
               /\ Steps(c) /\ calls'[c].handler = "invoke" =>
                      toolsCache' = toolsCache
               /\ Steps(c) /\ calls'[c].err \in ClientErrors =>
                      toolsCache' = toolsCache /\ ~WroteCache(c)'
               /\ ListBegins(c)
                      /\ calls'[c].server.name \notin DOMAIN toolsCache =>
                      calls'[c].pc = "connect" /\ calls'[c].nConn = 0
               /\ Done(c)' /\ calls'[c].handler = "list"
                      /\ calls'[c].err = "" /\ ~calls'[c].hit =>
                      /\ WroteCache(c)'
                      /\ calls'[c].server.name \in DOMAIN toolsCache'
               /\ Done(c)' /\ calls'[c].handler = "invoke" =>
                      calls'[c].ret =
                          IF calls'[c].err = ""
                          THEN ExtractContent(upstream.reply).s
                          ELSE <<"FAIL", " ", "[", calls'[c].server.name, "]",
                                 " ", "call", " ", "bq", calls'[c].action, "bq",
                                 " ", "failed", ":", " ", calls'[c].err>>
      ]_vars

\* C20 witness: a list call failed at enumerate and left no entry, a second
\* list call on the same subsystem made a discovery of its own, which has
\* filled the cache.
C20_Witness ==
    /\ Done("c1") /\ calls["c1"].handler = "list"
    /\ calls["c1"].err = "enumerate-error"
    /\ Done("c2") /\ calls["c2"].handler = "list" /\ ~calls["c2"].hit
    /\ calls["c2"].nConn = 1 /\ WroteCache("c2")
    /\ calls["c1"].ep = calls["c2"].ep
    /\ toolsCache[calls["c2"].server.name] = SingleResult("c2")
    /\ SingleResult("c2") # <<>>

=============================================================================
